---- MODULE Spec2Model ----
(***************************************************************************)
(* Model of the turbokit template engine: applyVariables (placeholder      *)
(* substitution), copyTemplate (variant resolution, filtering, planning    *)
(* and writing), generate (the orchestrator with its cleanup path) and     *)
(* collectFilePaths (the dry-run planner).                                 *)
(*                                                                         *)
(* A text is a sequence of symbols.  "{" and "}" are the braces, the       *)
(* symbols of WordChars stand for runs of word characters (\w), every      *)
(* other symbol is an ordinary character.  A file name is the sequence of  *)
(* its dot-separated segments: <<"App", "with-api", "tsx", "template">>    *)
(* is App.with-api.tsx.template.                                           *)
(***************************************************************************)
EXTENDS Integers, Sequences, FiniteSets, TLC

VARIABLES
  content,      \* applyVariables: the template text passed in
  variables,    \* applyVariables: the variable mapping passed in
  applyResult,  \* applyVariables: outcome of the last call
  tree,         \* copyTemplate: the files below templateDir, each [dir, name]
  variant,      \* copyTemplate: options.variant ("" when not given)
  exclude,      \* copyTemplate: options.exclude
  include,      \* copyTemplate: options.include ([given, patterns])
  reversed,     \* copyTemplate: whether readdir lists a directory in reverse order
  transformFileName, \* copyTemplate: options.transformFileName ("default" when not given)
  destDirExists,\* disk: whether destDir exists
  destFiles,    \* disk: the files below destDir, path |-> content
  calls,        \* copyTemplate: outcome of the dry-mode and of the real-mode call
  fsReads,      \* copyTemplate: what each call listed (readdir) and read (readFile)
  modules,      \* generate: config.modules
  force,        \* generate: flags.force
  pc,           \* generate: the step about to run, or catch / resolved / rejected
  currentStep,  \* generate: the step counter
  totalSteps,   \* generate: the total computed before the first step
  projectDir,   \* disk: state of projectPath
  done,         \* generate: the operations completed so far, in order
  log,          \* generate: the logger.step calls so far
  thrown,       \* generate: the error raised by the failing step ("" if none)
  cleanup,      \* generate: what the catch block did
  rejection,    \* generate: the error its promise rejected with ("" if none)
  dryPaths,     \* collectFilePaths: the copyTemplate calls of the dry run
  caught,       \* handleError: the value caught by main
  verbose,      \* handleError: the verbose flag
  exit,         \* handleError: what was printed and the code passed to process.exit
  flagsDryRun,  \* main: flags.dryRun
  mainPromise,  \* main: state of the promise main returned
  printPromise, \* main: state of the promise printDryRun returned ("none" if not called)
  argv,         \* parseArgs: the argument list
  parsed,       \* parseArgs: the flags returned, or the process.exit it made
  wrapCall,     \* wrapFileSystemError: the arguments of the call
  wrapped       \* wrapFileSystemError: the result, and the result of wrapping it again

renderVars == <<content, variables, applyResult>>

copyVars == <<tree, variant, exclude, include, reversed, transformFileName,
              destDirExists, destFiles, calls, fsReads>>

genVars == <<modules, force, pc, currentStep, totalSteps, projectDir, done, log,
             thrown, cleanup, rejection, dryPaths>>

cliVars == <<caught, verbose, exit>>

mainVars == <<flagsDryRun, mainPromise, printPromise>>

argVars == <<argv, parsed>>

wrapVars == <<wrapCall, wrapped>>

vars == <<renderVars, copyVars, genVars, cliVars, mainVars, argVars, wrapVars>>

(***************************************************************************)
(* Bounds                                                                  *)
(***************************************************************************)
MaxFragments == 3
MaxFiles == 2

(***************************************************************************)
(* applyVariables                                                          *)
(***************************************************************************)

\* symbols matched by \w
WordChars == {"a", "constructor"}

\* properties every object literal inherits from Object.prototype
ObjectPrototypeKeys == {<<"constructor">>}

\* String(Object.prototype.constructor), what replace() inserts for it
InheritedText == <<"function Object">>

Undefined == [defined |-> FALSE, val |-> <<>>]

\* variables[variableName]: JavaScript property access on the mapping
Lookup(vs, name) ==
  IF name \in DOMAIN vs THEN [defined |-> TRUE, val |-> vs[name]]
  ELSE IF name \in ObjectPrototypeKeys THEN [defined |-> TRUE, val |-> InheritedText]
  ELSE Undefined

\* greedy \w+ from position p: index of the last symbol of the run (p-1 if none)
RECURSIVE WordRunEnd(_, _)
WordRunEnd(s, p) ==
  IF p <= Len(s) /\ s[p] \in WordChars THEN WordRunEnd(s, p + 1) ELSE p - 1

\* a looser pattern that also accepts blanks around the identifier
RECURSIVE BlankRunEnd(_, _)
BlankRunEnd(s, p) ==
  IF p <= Len(s) /\ s[p] = " " THEN BlankRunEnd(s, p + 1) ELSE p - 1

MatchAtLoose(s, p) ==
  IF p + 1 <= Len(s) /\ s[p] = "{" /\ s[p + 1] = "{"
  THEN LET b == BlankRunEnd(s, p + 2)
           e == WordRunEnd(s, b + 1)
           f == BlankRunEnd(s, e + 1)
       IN IF e >= b + 1 /\ f + 2 <= Len(s) /\ s[f + 1] = "}" /\ s[f + 2] = "}"
          THEN [from |-> b + 1, to |-> e, end |-> f + 2]
          ELSE [from |-> 0, to |-> 0, end |-> 0]
  ELSE [from |-> 0, to |-> 0, end |-> 0]

\* the pattern /\{\{(\w+)\}\}/ tried at position p: the captured identifier
\* is s[from..to] and the match ends at end; end = 0 when it does not match
MatchAt(s, p) ==
  IF p + 1 <= Len(s) /\ s[p] = "{" /\ s[p + 1] = "{"
  THEN LET e == WordRunEnd(s, p + 2)
       IN IF e >= p + 2 /\ e + 2 <= Len(s) /\ s[e + 1] = "}" /\ s[e + 2] = "}"
          THEN [from |-> p + 2, to |-> e, end |-> e + 2]
          ELSE [from |-> 0, to |-> 0, end |-> 0]
  ELSE [from |-> 0, to |-> 0, end |-> 0]

Returned(out) == [kind |-> "returned", out |-> out, missing |-> <<>>, known |-> {}]

\* new Error(`Undefined template variable: {{name}}. Available variables: keys`)
Thrown(name, keys) == [kind |-> "thrown", out |-> <<>>, missing |-> name, known |-> keys]

NotCalled == [kind |-> "none", out |-> <<>>, missing |-> <<>>, known |-> {}]

\* content.replace(pattern, callback) with the g flag: scan left to right from
\* position p, copy unmatched symbols, replace each match by the callback's
\* value and resume after the match; the callback's throw ends the scan
RECURSIVE ReplaceAll(_, _, _, _)
ReplaceAll(s, vs, p, out) ==
  IF p > Len(s) THEN Returned(out)
  ELSE LET m == MatchAt(s, p)
       IN IF m.end = 0 THEN ReplaceAll(s, vs, p + 1, Append(out, s[p]))
          ELSE LET name == SubSeq(s, m.from, m.to)
                   value == Lookup(vs, name)
               IN IF ~value.defined THEN Thrown(name, DOMAIN vs)
                  ELSE ReplaceAll(s, vs, m.end + 1, out \o value.val)

\* a renderer that scans its own output once more
applyVariablesTwice(c, vs) ==
  IF c = <<>> THEN Returned(c)
  ELSE LET once == ReplaceAll(c, vs, 1, <<>>)
       IN IF once.kind = "returned" THEN ReplaceAll(once.out, vs, 1, <<>>) ELSE once

applyVariables(c, vs) ==
  IF c = <<>> THEN Returned(c) ELSE ReplaceAll(c, vs, 1, <<>>)

(***************************************************************************)
(* Inputs of applyVariables                                                *)
(***************************************************************************)
Fragments ==
  { <<"{", "{", "a", "}", "}">>,              \* {{a}}
    <<"{", "{", "a", "a", "}", "}">>,         \* {{aa}}
    <<"{", "{", "constructor", "}", "}">>,    \* {{constructor}}
    <<"{", "{", " ", "a", " ", "}", "}">>,    \* {{ a }}
    <<"{", "a", "}">>,                        \* {a}
    <<"{", "{", "a", " ">>,                   \* unterminated {{a
    <<"{">>, <<"}">>, <<"a">>, <<" ">> }

RECURSIVE Texts(_)
Texts(n) ==
  IF n = 0 THEN {<<>>}
  ELSE LET shorter == Texts(n - 1)
       IN shorter \cup {t \o f : t \in shorter, f \in Fragments}

NoVariables == [n \in {} |-> <<>>]

VariableSets ==
  { NoVariables,
    (<<"a">> :> <<"v">>),
    (<<"a">> :> <<"v">>) @@ (<<"a", "a">> :> <<>>),
    (<<"a">> :> <<"{", "{", "a", "a", "}", "}">>),
    (<<"a">> :> <<"{", "{", "a", "}", "}">>) }

NoCopy ==
  /\ tree = {}
  /\ variant = ""
  /\ exclude = {}
  /\ include = [given |-> FALSE, patterns |-> {}]
  /\ reversed = FALSE
  /\ transformFileName = "default"
  /\ destDirExists = FALSE
  /\ destFiles = <<>>
  /\ calls = <<>>
  /\ fsReads = <<>>

NoGenerate ==
  /\ modules = [web |-> FALSE, mobile |-> FALSE, api |-> FALSE,
                storybook |-> FALSE, ui |-> FALSE]
  /\ force = FALSE
  /\ pc = "idle"
  /\ currentStep = 0
  /\ totalSteps = 0
  /\ projectDir = "absent"
  /\ done = <<>>
  /\ log = <<>>
  /\ thrown = ""
  /\ cleanup = "none"
  /\ rejection = ""
  /\ dryPaths = [state |-> "none", copies |-> <<>>]

\* a value that is no Error object, and the state before handleError runs
NoError ==
  [class |-> "none", isError |-> FALSE, isTurbokitError |-> FALSE, name |-> "",
   forceClosed |-> FALSE, exitCode |-> 1]

NotExited == [called |-> FALSE, code |-> 0, stream |-> "", text |-> "", stack |-> FALSE]

NoCli ==
  /\ caught = NoError
  /\ verbose = FALSE
  /\ exit = NotExited

NoMain ==
  /\ flagsDryRun = FALSE
  /\ mainPromise = "none"
  /\ printPromise = "none"

\* the flags parseArgs starts from, lines 51-63
DefaultFlags ==
  [name |-> Undefined, path |-> Undefined, web |-> FALSE, mobile |-> FALSE,
   api |-> FALSE, storybook |-> FALSE, ui |-> FALSE, yes |-> FALSE,
   dryRun |-> FALSE, verbose |-> FALSE, force |-> FALSE]

NotParsed == [kind |-> "none", flags |-> DefaultFlags, code |-> 0, stream |-> ""]

NoParse ==
  /\ argv = <<>>
  /\ parsed = NotParsed

\* no error object
NoFsError ==
  [kind |-> "none", class |-> "", code |-> "", message |-> <<>>, suggestion |-> ""]

NoWrap ==
  /\ wrapCall = [error |-> NoFsError, path |-> "", operation |-> ""]
  /\ wrapped = [once |-> NoFsError, twice |-> NoFsError]

InitRender ==
  /\ content \in Texts(MaxFragments)
  /\ variables \in VariableSets
  /\ applyResult = NotCalled
  /\ NoCopy
  /\ NoGenerate
  /\ NoCli
  /\ NoMain
  /\ NoParse
  /\ NoWrap

ApplyVariablesCall ==
  /\ applyResult.kind = "none"
  /\ applyResult' = applyVariables(content, variables)
  /\ UNCHANGED <<content, variables, copyVars, genVars, cliVars, mainVars, argVars, wrapVars>>

NextRender == ApplyVariablesCall

SpecRender == InitRender /\ [][NextRender]_vars

(***************************************************************************)
(* Properties of applyVariables                                            *)
(***************************************************************************)

\* s[i..j] is a placeholder {{identifier}}: two opening braces, one or more
\* word symbols and nothing else, two closing braces
IsPlaceholder(s, i, j) ==
  /\ 1 <= i /\ j <= Len(s) /\ j >= i + 4
  /\ s[i] = "{" /\ s[i + 1] = "{" /\ s[j - 1] = "}" /\ s[j] = "}"
  /\ \A k \in (i + 2)..(j - 2) : s[k] \in WordChars

Placeholders(s) ==
  {pl \in (1..Len(s)) \X (1..Len(s)) : IsPlaceholder(s, pl[1], pl[2])}

Identifier(s, pl) == SubSeq(s, pl[1] + 2, pl[2] - 2)

UnknownPlaceholders(s, vs) ==
  {pl \in Placeholders(s) : Identifier(s, pl) \notin DOMAIN vs}

\* what position p of the text contributes to the expected output
Contribution(s, vs, p) ==
  IF \E pl \in Placeholders(s) : pl[1] = p
  THEN vs[Identifier(s, CHOOSE pl \in Placeholders(s) : pl[1] = p)]
  ELSE IF \E pl \in Placeholders(s) : pl[1] < p /\ p <= pl[2] THEN <<>>
  ELSE <<s[p]>>

RECURSIVE ExpectedFrom(_, _, _)
ExpectedFrom(s, vs, p) ==
  IF p > Len(s) THEN <<>> ELSE Contribution(s, vs, p) \o ExpectedFrom(s, vs, p + 1)

\* C6 (as claimed): whenever the text holds a placeholder whose identifier is
\* not a key of the mapping, the call throws an error naming such an
\* identifier and listing exactly the mapping's keys, and returns nothing.
C6_UnknownPlaceholderThrows ==
  (applyResult.kind # "none" /\ UnknownPlaceholders(content, variables) # {})
    => /\ applyResult.kind = "thrown"
       /\ applyResult.out = <<>>
       /\ applyResult.known = DOMAIN variables
       /\ \E pl \in UnknownPlaceholders(content, variables) :
            applyResult.missing = Identifier(content, pl)

\* C7: when every placeholder's identifier is a key of the mapping, the call
\* returns the text with every placeholder replaced by its mapped value and
\* every other symbol unchanged; a text without placeholders ({{ a }}, {a},
\* an unterminated {{a , the empty text) is returned as it is.
C7_ReplacesExactlyThePlaceholders ==
  (applyResult.kind # "none" /\ UnknownPlaceholders(content, variables) = {})
    => /\ applyResult = Returned(ExpectedFrom(content, variables, 1))
       /\ (Placeholders(content) = {} => applyResult.out = content)

\* a call that replaced two placeholders and kept a {{ a }} in between
C7_Witness ==
  /\ applyResult.kind = "returned"
  /\ content = <<"{", "{", "a", "}", "}">> \o <<"{", "{", " ", "a", " ", "}", "}">>
                 \o <<"{", "{", "a", "}", "}">>
  /\ variables = (<<"a">> :> <<"v">>)
  /\ applyResult.out = <<"v">> \o <<"{", "{", " ", "a", " ", "}", "}">> \o <<"v">>

\* some value of the mapping itself holds a placeholder
ValueHoldsPlaceholder(vs) == \E k \in DOMAIN vs : Placeholders(vs[k]) # {}

\* C17: when a value of the mapping holds a placeholder, a call whose text
\* names only keys of the mapping returns, and its output holds every value
\* as it is: the placeholder inside a value is neither replaced nor reported
\* as missing.  Every call settles, returned or thrown.
C17_SubstitutedTextNotRescanned ==
  /\ applyResult.kind # "none" => applyResult.kind \in {"returned", "thrown"}
  /\ (applyResult.kind # "none" /\ ValueHoldsPlaceholder(variables)
        /\ UnknownPlaceholders(content, variables) = {})
       => /\ applyResult.kind = "returned"
          /\ applyResult.out = ExpectedFrom(content, variables, 1)

\* {{a}}{{a}} rendered with a = '{{aa}}', aa being no key: the output is
\* {{aa}}{{aa}}
C17_Witness ==
  /\ variables = (<<"a">> :> <<"{", "{", "a", "a", "}", "}">>)
  /\ content = <<"{", "{", "a", "}", "}", "{", "{", "a", "}", "}">>
  /\ applyResult.kind = "returned"
  /\ applyResult.out = <<"{", "{", "a", "a", "}", "}", "{", "{", "a", "a", "}", "}">>

(***************************************************************************)
(* copyTemplate                                                            *)
(***************************************************************************)

\* name.endsWith('.template')
EndsWithTemplate(name) == Len(name) >= 2 /\ name[Len(name)] = "template"

\* name.slice(0, -'.template'.length) when the name ends with .template
StripTemplate(name) ==
  IF EndsWithTemplate(name) THEN SubSeq(name, 1, Len(name) - 1) ELSE name

defaultTransformFileName(name) == StripTemplate(name)

\* the segments with-<tag> of the model and the tag each one carries
MarkerTag == ("with-api" :> "api") @@ ("with-db" :> "db")

\* the segment `with-${variant}`
MarkerOf(v) == CHOOSE m \in DOMAIN MarkerTag : MarkerTag[m] = v

\* result.match(/^(.+)\.with-([^.]+)\.(.+)$/): the marker segments that have a
\* non-empty base before them and a non-empty rest after them
MarkerPositions(result) ==
  {i \in 2..(Len(result) - 1) :
     /\ result[i] \in DOMAIN MarkerTag
     /\ ~(i = 2 /\ result[1] = "")
     /\ ~(i = Len(result) - 1 /\ result[Len(result)] = "")}

Skip == [skip |-> TRUE, name |-> <<>>]

Emit(name) == [skip |-> FALSE, name |-> name]

\* createVariantTransformer(variant)(name); the first group is greedy, so the
\* pattern settles on the last marker segment that can match
createVariantTransformer(v, name) ==
  LET result == StripTemplate(name)
      pos == MarkerPositions(result)
  IN IF pos # {}
     THEN LET i == CHOOSE k \in pos : \A j \in pos : j <= k
              baseName == SubSeq(result, 1, i - 1)
              fileVariant == MarkerTag[result[i]]
              extension == SubSeq(result, i + 1, Len(result))
          IN IF v # "" /\ fileVariant = v THEN Emit(baseName \o extension) ELSE Skip
     ELSE Emit(result)

\* entry.name.includes('.with-')
IncludesWithMarker(name) == \E i \in 2..Len(name) : name[i] \in DOMAIN MarkerTag

\* toLowerCase() of one segment of a name
ToLowerCase(seg) ==
  IF seg = "PNG" THEN "png"
  ELSE IF seg = "App" THEN "app"
  ELSE IF seg = "Dockerfile" THEN "dockerfile"
  ELSE seg

BINARY_EXTENSIONS == {"png", "jpg", "jpeg", "gif", "ico", "woff", "woff2", "ttf", "eot"}

\* extname(filename).toLowerCase() is in BINARY_EXTENSIONS
isBinaryFile(filename) ==
  /\ Len(filename) >= 2
  /\ ~(Len(filename) = 2 /\ filename[1] = "")
  /\ ToLowerCase(filename[Len(filename)]) \in BINARY_EXTENSIONS

DEFAULT_EXCLUDE == {<<"node_modules">>, <<"", "git">>}

\* new RegExp(`^${regexPattern}$`).test(name) for a pattern whose wildcards
\* are whole segments: a wildcard stands for one or more segments
RECURSIVE GlobTest(_, _)
GlobTest(name, pattern) ==
  IF pattern = <<>> THEN name = <<>>
  ELSE IF name = <<>> THEN FALSE
  ELSE IF Head(pattern) = "*"
       THEN \E k \in 1..Len(name) : GlobTest(SubSeq(name, k + 1, Len(name)), Tail(pattern))
       ELSE Head(pattern) = Head(name) /\ GlobTest(Tail(name), Tail(pattern))

\* a matcher without wildcard support
matchesPatternExact(name, patterns) == name \in patterns

matchesPattern(name, patterns) ==
  \E pattern \in patterns :
    IF \E i \in 1..Len(pattern) : pattern[i] = "*"
    THEN GlobTest(name, pattern)
    ELSE name = pattern

\* collectFiles(templateDir): the names of all files of the tree
collectFiles(t) == {e.name : e \in t}

\* the directories collectFiles passes to readdir: templateDir and every
\* directory below it
CollectListed(t) ==
  {<<>>} \cup UNION {{SubSeq(e.dir, 1, k) : k \in 0..Len(e.dir)} : e \in t}

\* shouldSkipForVariant(fileName), allFiles being the result of collectFiles
shouldSkipForVariant(v, allFiles, fileName) ==
  IF v = "" THEN FALSE
  ELSE LET withoutTemplate == StripTemplate(fileName)
       IN IF Len(withoutTemplate) = 1 THEN FALSE
          ELSE LET baseName == SubSeq(withoutTemplate, 1, Len(withoutTemplate) - 1)
                   extension == withoutTemplate[Len(withoutTemplate)]
                   variantFileName == baseName \o <<MarkerOf(v), extension, "template">>
               IN variantFileName \in allFiles

\* the test's custom option (name) => name.toLowerCase()
NameToLowerCase(name) == [i \in 1..Len(name) |-> ToLowerCase(name[i])]

\* options.transformFileName applied to a name: the default, line 436, or the
\* caller's function
ApplyTransformFileName(tf, name) ==
  IF tf = "default" THEN defaultTransformFileName(name) ELSE NameToLowerCase(name)

\* walkDir, lines 517-536: the destination name of a file, or Skip
DestFileName(o, fileName) ==
  IF o.variant # ""
  THEN LET transformed == createVariantTransformer(o.variant, fileName)
       IN IF transformed.skip THEN Skip
          ELSE IF shouldSkipForVariant(o.variant, o.allFiles, fileName) THEN Skip
          ELSE transformed
  ELSE IF IncludesWithMarker(fileName) THEN Skip
       ELSE Emit(ApplyTransformFileName(o.transformFileName, fileName))

\* the file and directory names of the model, in the order readdir lists them
NameList ==
  << <<"App", "tsx", "template">>,
     <<"App", "with-api", "tsx", "template">>,
     <<"App", "with-db", "tsx", "template">>,
     <<"App", "tsx">>,
     <<"App", "test", "tsx", "template">>,
     <<"App", "with-api", "test", "tsx", "template">>,
     <<"Dockerfile", "with-db", "template">>,
     <<"x", "with-db", "with-api", "ts", "template">>,
     <<"logo", "PNG">>,
     <<"bad", "md", "template">>,
     <<"proto", "md", "template">>,
     <<"src">>,
     <<"node_modules">> >>

Rank(name) == CHOOSE i \in 1..Len(NameList) : NameList[i] = name

FileNames == {NameList[i] : i \in 1..11}

\* the files a template tree of the model is made of
TemplateEntries ==
  {[dir |-> <<>>, name |-> n] : n \in FileNames}
    \cup {[dir |-> << <<"src">> >>, name |-> n] :
            n \in {NameList[1], NameList[2], NameList[4], NameList[10]}}
    \cup {[dir |-> << <<"node_modules">> >>, name |-> n] :
            n \in {NameList[1], NameList[2]}}

TemplateTrees == {t \in SUBSET TemplateEntries : Cardinality(t) <= MaxFiles}

\* the variable mapping handed to copyTemplate
CopyVariables == (<<"a">> :> <<"v">>)

\* readFile(srcPath): every file holds a placeholder followed by its own path;
\* the placeholders of bad.md.template, of proto.md.template and of logo.PNG
\* name no variable of the mapping
FileBytes(srcPath) ==
  LET name == srcPath[Len(srcPath)]
      dir == SubSeq(srcPath, 1, Len(srcPath) - 1)
      dirText == [i \in 1..Len(dir) |-> dir[i][1]]
  IN (IF name[1] = "logo" THEN <<"0x89", "{", "{", "a", "a", "a", "}", "}">>
      ELSE IF name[1] = "bad" THEN <<"{", "{", "a", "a", "}", "}">>
      ELSE IF name[1] = "proto" THEN <<"{", "{", "constructor", "}", "}">>
      ELSE <<"{", "{", "a", "}", "}">>)
     \o <<"#">> \o dirText \o <<"/">> \o name

\* decoding of bytes as UTF-8 text: a byte that starts no valid sequence
\* becomes the replacement character
Utf8Decode(bytes) ==
  [i \in 1..Len(bytes) |-> IF bytes[i] = "0x89" THEN "U+FFFD" ELSE bytes[i]]

\* encoding of text as UTF-8 bytes
RECURSIVE Utf8Encode(_)
Utf8Encode(text) ==
  IF text = <<>> THEN <<>>
  ELSE (IF Head(text) = "U+FFFD" THEN <<"0xEF", "0xBF", "0xBD">> ELSE <<Head(text)>>)
       \o Utf8Encode(Tail(text))

\* readFile(path) of utils/fs: Bun.file(path).text()
readFile(srcPath) == Utf8Decode(FileBytes(srcPath))

\* readdir(srcDir, { withFileTypes: true }) as a set of directory entries
Dirents(t, srcDir) ==
  {[name |-> e.name, isDirectory |-> FALSE] : e \in {f \in t : f.dir = srcDir}}
    \cup {[name |-> e.dir[Len(srcDir) + 1], isDirectory |-> TRUE] :
            e \in {f \in t : /\ Len(f.dir) > Len(srcDir)
                              /\ SubSeq(f.dir, 1, Len(srcDir)) = srcDir}}

\* the entries in listing order (ascending, or descending when rev)
RECURSIVE Listing(_, _)
Listing(ds, rev) ==
  IF ds = {} THEN <<>>
  ELSE LET first == CHOOSE d \in ds :
                      \A x \in ds : IF rev THEN Rank(x.name) <= Rank(d.name)
                                           ELSE Rank(d.name) <= Rank(x.name)
       IN <<first>> \o Listing(ds \ {first}, rev)

readdir(o, srcDir) == Listing(Dirents(o.tree, srcDir), o.reversed)

Planned(entries) ==
  [kind |-> "planned", fileEntries |-> entries, missing |-> <<>>,
   listed |-> {}, read |-> {}]

\* walkDir(srcDir, destSubDir); destSubDir is destDir followed by the same
\* relative path as srcDir, so one relative path stands for both.  acc holds
\* fileEntries so far, or the error applyVariables threw.
RECURSIVE walkDir(_, _, _), WalkEntries(_, _, _, _)
walkDir(o, srcDir, acc) ==
  WalkEntries(o, srcDir, readdir(o, srcDir), [acc EXCEPT !.listed = @ \cup {srcDir}])

WalkEntries(o, srcDir, entries, acc) ==
  IF acc.kind = "thrown" \/ entries = <<>> THEN acc
  ELSE LET entry == Head(entries)
           rest == Tail(entries)
           srcPath == Append(srcDir, entry.name)
       IN IF matchesPattern(entry.name, o.exclude)
          THEN WalkEntries(o, srcDir, rest, acc)
          ELSE IF entry.isDirectory
          THEN WalkEntries(o, srcDir, rest, walkDir(o, srcPath, acc))
          ELSE IF o.include.given /\ ~matchesPattern(entry.name, o.include.patterns)
          THEN WalkEntries(o, srcDir, rest, acc)
          ELSE LET dest == DestFileName(o, entry.name)
               IN IF dest.skip THEN WalkEntries(o, srcDir, rest, acc)
                  ELSE LET destPath == Append(srcDir, dest.name)
                           rawContent == readFile(srcPath)
                           rendered == IF isBinaryFile(entry.name)
                                       THEN Returned(rawContent)
                                       ELSE applyVariables(rawContent, o.variables)
                       IN IF rendered.kind = "thrown"
                          THEN [acc EXCEPT !.kind = "thrown",
                                           !.missing = rendered.missing,
                                           !.read = @ \cup {srcPath}]
                          ELSE WalkEntries(o, srcDir, rest,
                                 [acc EXCEPT !.fileEntries =
                                               Append(@, [path |-> destPath,
                                                          content |-> rendered.out]),
                                             !.read = @ \cup {srcPath}])

\* the options of a call together with the tree it reads and the listing order
Options(t, vs, ex, inc, v, rev, tf) ==
  [tree |-> t, variables |-> vs, exclude |-> ex, include |-> inc, variant |-> v,
   reversed |-> rev, transformFileName |-> tf, allFiles |-> IF v # "" THEN collectFiles(t) ELSE {}]

\* lines 442-561 of copyTemplate: both passes over the template directory
Plan(o) == walkDir(o, <<>>, Planned(<<>>))

DestPaths(fileEntries) == [i \in 1..Len(fileEntries) |-> fileEntries[i].path]

RECURSIVE writeFiles(_, _, _)
\* a writeFiles that stops after its first entry
writeFilesFirstOnly(disk, fileEntries, n) ==
  IF n = 0 THEN disk
  ELSE (fileEntries[1].path :> Utf8Encode(fileEntries[1].content)) @@ disk

\* writeFiles(fileEntries) up to entry n: each write replaces what the path held
writeFiles(disk, fileEntries, n) ==
  IF n = 0 THEN disk
  ELSE LET before == writeFiles(disk, fileEntries, n - 1)
       IN (fileEntries[n].path :> Utf8Encode(fileEntries[n].content)) @@ before

NoCall == [kind |-> "none", destPaths |-> <<>>, fileEntries |-> <<>>, error |-> ""]

\* the promise of copyTemplate resolved with destPaths
Resolved(fileEntries) ==
  [kind |-> "returned", destPaths |-> DestPaths(fileEntries),
   fileEntries |-> fileEntries, error |-> ""]

\* the promise of copyTemplate rejected
Rejected(error) == [kind |-> "thrown", destPaths |-> <<>>, fileEntries |-> <<>>, error |-> error]

Mode(dryRun) == IF dryRun THEN "dry" ELSE "real"

ExcludeSettings == {DEFAULT_EXCLUDE, DEFAULT_EXCLUDE \cup {<<"src">>}}

IncludeSettings ==
  { [given |-> FALSE, patterns |-> {}],
    [given |-> TRUE, patterns |-> {<<"*", "template">>}] }

NoReads == [listed |-> {}, read |-> {}]

\* what a call lists and reads: the first pass when a variant is given
\* (lines 466-468), then the walk
ReadsOf(o, plan) ==
  [listed |-> (IF o.variant # "" THEN CollectListed(o.tree) ELSE {}) \cup plan.listed,
   read |-> plan.read]

\* a file left in destDir by an earlier run
StaleFiles == (<< <<"old", "txt">> >> :> <<"old">>)

NoRender ==
  /\ content = <<>>
  /\ variables = CopyVariables
  /\ applyResult = NotCalled

InitCopy ==
  /\ tree \in TemplateTrees
  /\ variant \in {"", "api"}
  /\ exclude \in ExcludeSettings
  /\ include \in IncludeSettings
  /\ reversed \in BOOLEAN
  /\ \/ destDirExists = FALSE /\ destFiles = <<>>
     \/ destDirExists = TRUE /\ destFiles = StaleFiles
  \* a custom transformFileName is tried with a fresh destination and the
  \* plain listing order, with every tree, variant, exclude and include
  /\ \/ transformFileName = "default"
     \/ transformFileName = "toLowerCase" /\ ~reversed /\ ~destDirExists
  /\ calls = [dry |-> NoCall, real |-> NoCall]
  /\ fsReads = [dry |-> NoReads, real |-> NoReads]
  /\ NoRender
  /\ NoGenerate
  /\ NoCli
  /\ NoMain
  /\ NoParse
  /\ NoWrap

\* lines 563-567 with the disk as a value: in dry mode nothing is touched, in
\* real mode mkdir(destDir) creates the directory and writeFiles writes the
\* first n entries (all of them unless a write fails)
MaterializeAlways(dryRun, dirExists, disk, fileEntries, n) ==
  [dirExists |-> TRUE, files |-> writeFiles(disk, fileEntries, n)]

Materialize(dryRun, dirExists, disk, fileEntries, n) ==
  IF dryRun THEN [dirExists |-> dirExists, files |-> disk]
  ELSE [dirExists |-> TRUE, files |-> writeFiles(disk, fileEntries, n)]

\* one call copyTemplate(templateDir, destDir, options) from start to the
\* settling of its promise; mkdir and every write of writeFiles can fail
CopyTemplateCall ==
  \E dryRun \in BOOLEAN :
    /\ calls[Mode(dryRun)].kind = "none"
    /\ LET o == Options(tree, variables, exclude, include, variant, reversed, transformFileName)
           plan == Plan(o)
       IN /\ fsReads' = [fsReads EXCEPT ![Mode(dryRun)] = ReadsOf(o, plan)]
          /\ IF plan.kind = "thrown"
             THEN /\ calls' = [calls EXCEPT ![Mode(dryRun)] = Rejected("undefined variable")]
                  /\ UNCHANGED <<destDirExists, destFiles>>
             ELSE \/ /\ ~dryRun
                     /\ calls' = [calls EXCEPT !.real = Rejected("mkdir")]
                     /\ UNCHANGED <<destDirExists, destFiles>>
                  \/ \E n \in 0..Len(plan.fileEntries) :
                       /\ dryRun => n = Len(plan.fileEntries)
                       /\ LET after == Materialize(dryRun, destDirExists, destFiles,
                                                   plan.fileEntries, n)
                          IN /\ destDirExists' = after.dirExists
                             /\ destFiles' = after.files
                       /\ calls' = [calls EXCEPT ![Mode(dryRun)] =
                                      IF n = Len(plan.fileEntries)
                                      THEN Resolved(plan.fileEntries)
                                      ELSE Rejected("write")]
    /\ UNCHANGED <<renderVars, genVars, cliVars, mainVars, argVars, wrapVars, tree, variant,
                  exclude, include, reversed, transformFileName>>

NextCopy == CopyTemplateCall

SpecCopy == InitCopy /\ [][NextCopy]_vars

(***************************************************************************)
(* Properties of copyTemplate                                              *)
(***************************************************************************)

Range(seq) == {seq[i] : i \in 1..Len(seq)}

ReturnedModes == {m \in {"dry", "real"} : calls[m].kind = "returned"}

\* the content a planned entry made from source file e carries; it ends with
\* the path of e, so it tells which source file an entry was made from
ContentOf(e) ==
  LET raw == readFile(Append(e.dir, e.name))
  IN IF isBinaryFile(e.name) THEN raw ELSE applyVariables(raw, variables).out

ProducedFrom(fileEntries, e) ==
  \E i \in 1..Len(fileEntries) : fileEntries[i].content = ContentOf(e)

EntriesFor(fileEntries, path) ==
  {i \in 1..Len(fileEntries) : fileEntries[i].path = path}

\* neither the file nor a directory above it is removed by exclude/include
PassesFilters(e) ==
  /\ \A i \in 1..Len(e.dir) : ~matchesPattern(e.dir[i], exclude)
  /\ ~matchesPattern(e.name, exclude)
  /\ include.given => matchesPattern(e.name, include.patterns)

HasMarker(name) == \E i \in 1..Len(name) : name[i] \in DOMAIN MarkerTag

\* vf is B.with-V.ext.template for the base file bf = B.ext.template
IsVariantOf(vf, bf, v) ==
  /\ EndsWithTemplate(bf) /\ ~HasMarker(bf)
  /\ \E k \in 1..(Len(bf) - 2) :
       vf = SubSeq(bf, 1, k) \o <<MarkerOf(v)>> \o SubSeq(bf, k + 1, Len(bf))

\* C2 (as claimed): when a directory holds B.ext.template and
\* B.with-V.ext.template and the filters remove neither, a call with active
\* variant V plans exactly one entry for B.ext, carrying the rendered variant
\* file, and a call with no variant plans exactly one entry for B.ext,
\* carrying the rendered base file.
C2_VariantExclusivity ==
  \A m \in ReturnedModes : \A bf \in tree : \A vf \in tree :
    (/\ bf.dir = vf.dir
     /\ IsVariantOf(vf.name, bf.name, "api")
     /\ PassesFilters(bf) /\ PassesFilters(vf))
      => LET dest == Append(bf.dir, StripTemplate(bf.name))
             hits == EntriesFor(calls[m].fileEntries, dest)
         IN /\ Cardinality(hits) = 1
            /\ \A i \in hits :
                 calls[m].fileEntries[i].content =
                   IF variant = "api" THEN ContentOf(vf) ELSE ContentOf(bf)

\* the name has a segment with-<tag> after its first segment
CarriesMarker(name, tag) ==
  \E i \in 2..Len(name) : name[i] \in DOMAIN MarkerTag /\ MarkerTag[name[i]] = tag

CarriesInactiveMarker(name) ==
  \E tag \in {MarkerTag[m] : m \in DOMAIN MarkerTag} :
    CarriesMarker(name, tag) /\ (variant = "" \/ tag # variant)

\* C3 (as claimed): a source file whose name carries a marker other than the
\* active variant's, or any marker when no variant is active, never yields a
\* planned entry, whatever exclude and include are.
C3_InactiveVariantNeverPlanned ==
  \A m \in ReturnedModes : \A e \in tree :
    CarriesInactiveMarker(e.name) => ~ProducedFrom(calls[m].fileEntries, e)

\* C4 (as claimed): no returned destination path has a file name containing
\* a .with- marker, for every tree and every variant setting.
C4_NoMarkerInDestinationName ==
  \A m \in ReturnedModes : \A path \in Range(calls[m].destPaths) :
    ~IncludesWithMarker(path[Len(path)])

\* C5 (as claimed): with an active variant, an unmarked file that the filters
\* keep is left out of the plan exactly when a file of the same directory
\* carries the active marker and is emitted under the same final name.
C5_SuppressedBySiblingOnly ==
  \A m \in ReturnedModes : \A e \in tree :
    (variant # "" /\ ~HasMarker(e.name) /\ PassesFilters(e))
      => (~ProducedFrom(calls[m].fileEntries, e)
            <=> \E f \in tree :
                  /\ f.dir = e.dir
                  /\ CarriesMarker(f.name, variant)
                  /\ createVariantTransformer(variant, f.name) = Emit(StripTemplate(e.name)))

\* C8: a dry-mode call changes nothing on disk (no file written, destDir not
\* created), and when planning succeeds it returns the planned paths.
C8_DryRunLeavesDiskUntouched ==
  [][calls'.dry # calls.dry
       => /\ destFiles' = destFiles
          /\ destDirExists' = destDirExists
          /\ calls'.dry.kind = "returned"
               => calls'.dry.destPaths = DestPaths(calls'.dry.fileEntries)]_vars

\* a dry-mode call that returned two paths while destDir does not exist
C8_Witness ==
  /\ calls.dry.kind = "returned"
  /\ Len(calls.dry.destPaths) = 2
  /\ calls.real.kind = "none"
  /\ ~destDirExists
  /\ destFiles = <<>>

\* C9 (as claimed): dry mode and real mode return the same path list, and
\* after the real-mode call the files below destDir are exactly the returned
\* paths.
C9_FilesPresentAreReturnedPaths ==
  /\ (calls.dry.kind = "returned" /\ calls.real.kind = "returned")
       => calls.dry.destPaths = calls.real.destPaths
  /\ calls.real.kind = "returned"
       => DOMAIN destFiles = Range(calls.real.destPaths)

\* C9 (amended): dry mode and real mode return the same path list, and a
\* real-mode call that returns leaves below destDir exactly the files that
\* were there before together with the returned paths.
C9_FilesPresentAreOldAndReturnedPaths ==
  /\ []((calls.dry.kind = "returned" /\ calls.real.kind = "returned")
          => calls.dry.destPaths = calls.real.destPaths)
  /\ [][(calls.real.kind = "none" /\ calls'.real.kind = "returned")
          => DOMAIN destFiles' = DOMAIN destFiles \cup Range(calls'.real.destPaths)]_vars

\* both calls returned the same two paths and the real one wrote them next to
\* the file that was already there
C9_Witness ==
  /\ calls.dry.kind = "returned"
  /\ calls.real.kind = "returned"
  /\ Len(calls.real.destPaths) = 2
  /\ Cardinality(DOMAIN destFiles) = 3

\* a directory named by an exclude pattern lies on the path
BeneathExcluded(path) == \E i \in 1..Len(path) : matchesPattern(path[i], exclude)

\* C11: a call of copyTemplate never lists (descends into) a directory
\* that an exclude pattern names or that lies beneath one, reads no file
\* beneath one and plans no entry from a file beneath one, include patterns
\* or not.
C11_ExcludedDirectoryNeverDescended ==
  \A m \in {"dry", "real"} :
    /\ \A d \in fsReads[m].listed : ~BeneathExcluded(d)
    /\ \A f \in fsReads[m].read : ~BeneathExcluded(SubSeq(f, 1, Len(f) - 1))
    /\ \A e \in tree :
         BeneathExcluded(e.dir) => ~ProducedFrom(calls[m].fileEntries, e)

\* C12: a file with a binary extension (in any letter case) that the walk
\* emits is never rendered: the plan holds an entry with exactly the bytes of
\* the source file, and the undefined variable its bytes mention makes no
\* call fail.
C12_BinaryContentIsSourceContent ==
  \A m \in {"dry", "real"} : \A e \in tree :
    isBinaryFile(e.name)
      => /\ calls[m].kind = "thrown"
              => Plan(Options(tree, variables, exclude, include, variant, reversed, transformFileName)).missing
                   # <<"a", "a", "a">>
         /\ (calls[m].kind = "returned" /\ PassesFilters(e))
              => \E i \in 1..Len(calls[m].fileEntries) :
                   /\ calls[m].fileEntries[i].path = Append(e.dir, e.name)
                   /\ calls[m].fileEntries[i].content = FileBytes(Append(e.dir, e.name))

\* the walk reaches file e and gives it a destination name
Emitted(e) ==
  /\ PassesFilters(e)
  /\ ~DestFileName(Options(tree, variables, exclude, include, variant, reversed, transformFileName),
                   e.name).skip

\* e is a text file whose content holds a placeholder for a variable that is
\* not a key of the mapping
ReferencesUndefinedVariable(e) ==
  /\ ~isBinaryFile(e.name)
  /\ UnknownPlaceholders(readFile(Append(e.dir, e.name)), variables) # {}

\* C13 (as claimed): in real mode, when an emitted text file references an
\* undefined variable the call rejects, and the rejecting call has written
\* no file and has not created destDir.
C13_UndefinedVariableRejectsBeforeAnyWrite ==
  /\ []((calls.real.kind # "none"
           /\ \E e \in tree : Emitted(e) /\ ReferencesUndefinedVariable(e))
          => (calls.real.kind = "thrown" /\ calls.real.error = "undefined variable"))
  /\ [][(calls.real.kind = "none" /\ calls'.real.error = "undefined variable")
          => (destFiles' = destFiles /\ destDirExists' = destDirExists)]_vars

\* C16 (as claimed): the destination paths returned by one call are pairwise
\* different, for every tree, variant, exclude and include.
C16_DestinationPathsUnique ==
  \A m \in ReturnedModes :
    \A i, j \in 1..Len(calls[m].destPaths) :
      i # j => calls[m].destPaths[i] # calls[m].destPaths[j]

\* the name has more than one with-<tag> segment
MultipleMarkers(name) ==
  Cardinality({i \in 2..Len(name) : name[i] \in DOMAIN MarkerTag}) > 1

\* C22 (as claimed): a call whose walk meets a file with more than one
\* marker segment rejects; it neither emits nor silently skips the file.
C22_MultipleMarkersRejected ==
  \A m \in {"dry", "real"} :
    (calls[m].kind # "none"
       /\ \E e \in tree : MultipleMarkers(e.name) /\ PassesFilters(e))
      => calls[m].kind = "thrown"

\* the exclude settings of the model hold plain names and its include
\* setting is *.template, so "matches no exclude pattern" is "is none of the
\* names" and "matches an include pattern" is "ends with .template"
NotExcludedByName(e) ==
  /\ e.name \notin exclude
  /\ \A i \in 1..Len(e.dir) : e.dir[i] \notin exclude

\* C23: with include patterns given, every planned entry comes from a file
\* whose name matches no exclude pattern and matches an include pattern; and
\* a file below a directory that is not excluded is planned when it matches
\* include and the variant rules keep it, although the directory's own name
\* matches no include pattern.
C23_IncludeAppliesToFilesOnly ==
  \A m \in ReturnedModes :
    include.given
      => /\ \A i \in 1..Len(calls[m].fileEntries) :
              \E e \in tree :
                /\ calls[m].fileEntries[i].content = ContentOf(e)
                /\ NotExcludedByName(e)
                /\ EndsWithTemplate(e.name)
         /\ \A e \in tree :
              (/\ e.dir # <<>>
               /\ ~EndsWithTemplate(e.dir[1])
               /\ NotExcludedByName(e)
               /\ EndsWithTemplate(e.name)
               /\ ~DestFileName(Options(tree, variables, exclude, include, variant,
                                        reversed, transformFileName), e.name).skip)
                => ProducedFrom(calls[m].fileEntries, e)

\* include is *.template: src/App.tsx.template is planned, logo.PNG at the
\* root is not
C23_Witness ==
  /\ include.given
  /\ calls.dry.kind = "returned"
  /\ tree = {[dir |-> << <<"src">> >>, name |-> <<"App", "tsx", "template">>],
             [dir |-> <<>>, name |-> <<"logo", "PNG">>]}
  /\ calls.dry.destPaths = << << <<"src">>, <<"App", "tsx">> >> >>

\* C25 (as claimed): with an active variant, an unmarked file that the filters
\* keep is left out of the plan only when the plan holds an entry, made from a
\* file carrying the active marker, at the destination path the unmarked file
\* would have had; no destination path is left without a file.
C25_SuppressionLeavesDestinationFilled ==
  \A m \in ReturnedModes : \A e \in tree :
    (variant # "" /\ ~HasMarker(e.name) /\ PassesFilters(e)
       /\ ~ProducedFrom(calls[m].fileEntries, e))
      => \E f \in tree : \E i \in 1..Len(calls[m].fileEntries) :
           /\ CarriesMarker(f.name, variant)
           /\ calls[m].fileEntries[i].content = ContentOf(f)
           /\ calls[m].fileEntries[i].path =
                Append(e.dir, createVariantTransformer(variant, e.name).name)

\* C29 (as claimed): when the caller supplies transformFileName, every
\* planned entry is written under transformFileName of its source file's
\* name, in the source file's directory, also with an active variant.
C29_CustomTransformNamesEveryFile ==
  \A m \in ReturnedModes :
    transformFileName # "default"
      => \A i \in 1..Len(calls[m].fileEntries) :
           \E e \in tree :
             /\ calls[m].fileEntries[i].content = ContentOf(e)
             /\ calls[m].fileEntries[i].path =
                  Append(e.dir, ApplyTransformFileName(transformFileName, e.name))

(***************************************************************************)
(* generate and collectFilePaths                                           *)
(***************************************************************************)

AllModules == [web : BOOLEAN, mobile : BOOLEAN, api : BOOLEAN,
               storybook : BOOLEAN, ui : BOOLEAN]

\* a count that adds one step for the api module instead of two
calculateTotalStepsApiOnce(m) ==
  8 + (IF m.web THEN 1 ELSE 0) + (IF m.mobile THEN 1 ELSE 0)
    + (IF m.api THEN 1 ELSE 0)
    + (IF m.storybook THEN 1 ELSE 0) + (IF m.ui THEN 1 ELSE 0)

calculateTotalSteps(m) ==
  8 + (IF m.web THEN 1 ELSE 0) + (IF m.mobile THEN 1 ELSE 0)
    + (IF m.api THEN 2 ELSE 0)
    + (IF m.storybook THEN 1 ELSE 0) + (IF m.ui THEN 1 ELSE 0)

\* const apiVariant = modules.api ? 'api' : undefined
apiVariant(m) == IF m.api THEN "api" ELSE ""

\* the exclude list copyTemplate uses when the caller passes none
DefaultExcludeNames == {"node_modules", ".git"}

\* a web copy that keeps the default exclude list
webExcludeDefaultOnly(m) == {"node_modules", ".git"}

webExclude(m) ==
  {"node_modules", ".git"}
    \cup (IF ~m.api THEN {"api", ".env.example.template"} ELSE {})

mobileExclude(m) ==
  {"node_modules", ".git", "app.json.template"}
    \cup (IF ~m.api THEN {"api", "config", ".env.example.template"} ELSE {})

\* an order in which the commands run before the templates are copied
StepOrderCommandsFirst ==
  <<"mkdir", "gitInit", "bunInstall", "root", "config", "web", "addUi", "mobile", "api",
    "apiClient", "storybook", "ui", "husky", "chmod", "pipelines", "gitAdd", "gitCommit">>

\* the steps of generate in program order
StepOrder ==
  <<"mkdir", "root", "config", "web", "addUi", "mobile", "api", "apiClient",
    "storybook", "ui", "husky", "chmod", "pipelines",
    "gitInit", "bunInstall", "gitAdd", "gitCommit">>

CopySteps == {"root", "config", "web", "mobile", "api", "apiClient",
              "storybook", "ui", "husky", "pipelines"}

CommandSteps == {"gitInit", "bunInstall", "gitAdd", "gitCommit"}

\* the if statements that guard the optional steps
Applies(step, m) ==
  CASE step = "web" -> m.web
    [] step = "addUi" -> m.web /\ m.ui
    [] step = "mobile" -> m.mobile
    [] step \in {"api", "apiClient"} -> m.api
    [] step = "storybook" -> m.storybook
    [] step = "ui" -> m.ui
    [] OTHER -> TRUE

IndexOf(step) == CHOOSE i \in 1..Len(StepOrder) : StepOrder[i] = step

\* the step that follows step for this module selection
NextStep(step, m) ==
  LET later == {j \in (IndexOf(step) + 1)..Len(StepOrder) : Applies(StepOrder[j], m)}
  IN IF later = {} THEN "resolved"
     ELSE StepOrder[CHOOSE j \in later : \A k \in later : j <= k]

Copy(templateDir, destDir, v, ex) ==
  [op |-> "copyTemplate", target |-> templateDir, dest |-> destDir,
   variant |-> v, exclude |-> ex]

Other(op, target) ==
  [op |-> op, target |-> target, dest |-> "", variant |-> "", exclude |-> {}]

\* the copyTemplate call each copy step of generate makes
CopyOf(step, m) ==
  CASE step = "root" -> Copy("root", ".", apiVariant(m), DefaultExcludeNames)
    [] step = "config" -> Copy("packages/config", "packages/config", "", DefaultExcludeNames)
    [] step = "web" -> Copy("apps/web", "apps/web", apiVariant(m), webExclude(m))
    [] step = "mobile" -> Copy("apps/mobile", "apps/mobile", apiVariant(m), mobileExclude(m))
    [] step = "api" -> Copy("apps/api", "apps/api", "", DefaultExcludeNames)
    [] step = "apiClient" ->
         Copy("packages/api-client", "packages/api-client", "", DefaultExcludeNames)
    [] step = "storybook" -> Copy("apps/storybook", "apps/storybook", "", DefaultExcludeNames)
    [] step = "ui" -> Copy("packages/ui", "packages/ui", "", DefaultExcludeNames)
    [] step = "husky" -> Copy("husky", ".husky", "", DefaultExcludeNames)
    [] step = "pipelines" -> Copy("pipelines", ".github/workflows", "", DefaultExcludeNames)

CommandOf(step) ==
  CASE step = "gitInit" -> "git init"
    [] step = "bunInstall" -> "bun install"
    [] step = "gitAdd" -> "git add ."
    [] step = "gitCommit" -> "git commit --no-verify -m Initial commit"

GitOperationError ==
  ("git init" :> "GitOperationError: init") @@ ("git add ." :> "GitOperationError: add")
    @@ ("git commit --no-verify -m Initial commit" :> "GitOperationError: commit")

\* wrapCommandError(command, exitCode, stderr) of utils/errors; notFound is
\* whether stderr says 'command not found' or 'not recognized'
wrapCommandError(command, notFound) ==
  IF command \in DOMAIN GitOperationError
  THEN IF notFound THEN "GitNotInstalledError" ELSE GitOperationError[command]
  ELSE IF command = "bun install"
  THEN IF notFound THEN "BunNotInstalledError" ELSE "DependencyInstallError"
  ELSE "CommandFailedError"

\* the steps that begin with currentStep++ and logger.step
Counted(step) == step \notin {"addUi", "chmod", "gitCommit"}

\* a removal that reports success and leaves the directory in place
removeDirKeeps(dir) == dir

\* rm(path, { recursive: true, force: true }) that succeeded
removeDir(dir) == "absent"

\* currentStep++; logger.step(currentStep, totalSteps, ...)
EnterStep(step) ==
  IF Counted(step)
  THEN /\ currentStep' = currentStep + 1
       /\ log' = Append(log, [step |-> step, n |-> currentStep + 1, total |-> totalSteps])
  ELSE UNCHANGED <<currentStep, log>>

\* an exception leaves the try block for the catch block
Throw(error) ==
  /\ thrown' = error
  /\ pc' = "catch"

Proceed(step) ==
  /\ pc' = NextStep(step, modules)
  /\ UNCHANGED thrown

InitGen ==
  /\ modules \in AllModules
  /\ force \in BOOLEAN
  /\ projectDir \in {"absent", "empty", "nonempty"}
  /\ pc = "mkdir"
  /\ currentStep = 0
  /\ totalSteps = calculateTotalSteps(modules)
  /\ done = <<>>
  /\ log = <<>>
  /\ thrown = ""
  /\ cleanup = "none"
  /\ rejection = ""
  /\ dryPaths = [state |-> "none", copies |-> <<>>]
  /\ content = <<>>
  /\ variables = CopyVariables
  /\ applyResult = NotCalled
  /\ NoCopy
  /\ NoCli
  /\ NoMain
  /\ NoParse
  /\ NoWrap

\* step 1, lines 130-149
CreateProjectDirectory ==
  /\ pc = "mkdir"
  /\ EnterStep("mkdir")
  /\ IF projectDir # "absent" /\ ~force
     THEN /\ Throw("DirectoryExistsError")
          /\ UNCHANGED <<projectDir, done>>
     ELSE \/ /\ projectDir # "absent"
             /\ Throw("remove directory")
             /\ UNCHANGED <<projectDir, done>>
          \/ /\ Throw("create directory")
             /\ projectDir' = IF projectDir # "absent" THEN removeDir(projectDir)
                              ELSE projectDir
             /\ UNCHANGED done
          \/ /\ Proceed("mkdir")
             /\ projectDir' = "created"
             /\ done' = Append(done, Other("mkdir", "."))
  /\ UNCHANGED <<modules, force, totalSteps, cleanup, rejection, dryPaths, renderVars,
                 copyVars, cliVars, mainVars, argVars, wrapVars>>

\* the copy steps, lines 151-288: copyTemplate resolves or rejects
CopyTemplateStep ==
  /\ pc \in CopySteps
  /\ EnterStep(pc)
  /\ \/ /\ Proceed(pc)
        /\ done' = Append(done, CopyOf(pc, modules))
     \/ /\ Throw("copyTemplate")
        /\ UNCHANGED done
  /\ UNCHANGED <<modules, force, totalSteps, projectDir, cleanup, rejection, dryPaths,
                 renderVars, copyVars, cliVars, mainVars, argVars, wrapVars>>

\* lines 195-200: addUiDependency on apps/web/package.json
AddUiDependencyStep ==
  /\ pc = "addUi"
  /\ EnterStep(pc)
  /\ \/ /\ Proceed(pc)
        /\ done' = Append(done, Other("addUiDependency", "apps/web/package.json"))
     \/ /\ Throw("addUiDependency")
        /\ UNCHANGED done
  /\ UNCHANGED <<modules, force, totalSteps, projectDir, cleanup, rejection, dryPaths,
                 renderVars, copyVars, cliVars, mainVars, argVars, wrapVars>>

\* lines 275-279: chmod of .husky/pre-commit when the hook exists
ChmodHookStep ==
  /\ pc = "chmod"
  /\ EnterStep(pc)
  /\ \/ /\ Proceed(pc)
        /\ UNCHANGED done
     \/ /\ Proceed(pc)
        /\ done' = Append(done, Other("chmod", ".husky/pre-commit"))
     \/ /\ Throw("chmod")
        /\ UNCHANGED done
  /\ UNCHANGED <<modules, force, totalSteps, projectDir, cleanup, rejection, dryPaths,
                 renderVars, copyVars, cliVars, mainVars, argVars, wrapVars>>

\* lines 290-308 with runCommand, lines 50-70: Bun.spawn throws, or the
\* process exits with code 0 or not
RunCommandStep ==
  /\ pc \in CommandSteps
  /\ EnterStep(pc)
  /\ \/ /\ Proceed(pc)
        /\ done' = Append(done, Other("runCommand", CommandOf(pc)))
     \/ /\ \E notFound \in BOOLEAN : Throw(wrapCommandError(CommandOf(pc), notFound))
        /\ UNCHANGED done
     \/ /\ Throw("spawn error")
        /\ UNCHANGED done
  /\ UNCHANGED <<modules, force, totalSteps, projectDir, cleanup, rejection, dryPaths,
                 renderVars, copyVars, cliVars, mainVars, argVars, wrapVars>>

\* a catch block that lets the error of its own cleanup escape
RethrownUnlessCleanupFails(error, cleanupError) ==
  IF cleanupError # "" THEN cleanupError ELSE error

\* throw error, line 321, after the inner try/catch has swallowed cleanupError
Rethrown(error, cleanupError) == error

\* the catch block, lines 311-322: remove projectPath if it exists, ignore a
\* failure of the removal, rethrow the error
CatchCleanup ==
  /\ pc = "catch"
  /\ pc' = "rejected"
  /\ IF projectDir = "absent"
     THEN /\ cleanup' = "nothing to remove"
          /\ rejection' = Rethrown(thrown, "")
          /\ UNCHANGED projectDir
     ELSE \/ /\ cleanup' = "removed"
             /\ rejection' = Rethrown(thrown, "")
             /\ projectDir' = removeDir(projectDir)
          \/ /\ cleanup' = "removal failed"
             /\ rejection' = Rethrown(thrown, "rm failed")
             /\ UNCHANGED projectDir
  /\ UNCHANGED <<modules, force, currentStep, totalSteps, done, log, thrown,
                 dryPaths, renderVars, copyVars, cliVars, mainVars, argVars, wrapVars>>

\* the copyTemplate calls of collectFilePaths, src/cli/dryRun.ts lines 38-119
DryCopies(m) ==
  << Copy("root", ".", "", DefaultExcludeNames),
     Copy("packages/config", "packages/config", "", DefaultExcludeNames) >>
  \o (IF m.web THEN <<Copy("apps/web", "apps/web", "", DefaultExcludeNames)>> ELSE <<>>)
  \o (IF m.mobile THEN <<Copy("apps/mobile", "apps/mobile", "", DefaultExcludeNames)>>
      ELSE <<>>)
  \o (IF m.api THEN <<Copy("apps/api", "apps/api", "", DefaultExcludeNames)>> ELSE <<>>)
  \o (IF m.storybook THEN <<Copy("apps/storybook", "apps/storybook", "", DefaultExcludeNames)>>
      ELSE <<>>)
  \o (IF m.ui THEN <<Copy("packages/ui", "packages/ui", "", DefaultExcludeNames)>> ELSE <<>>)
  \o << Copy("husky", ".husky", "", DefaultExcludeNames),
        Copy("pipelines", ".github/workflows", "", DefaultExcludeNames) >>

\* collectFilePaths(config) run before generation: every dry-mode copyTemplate
\* resolves, or the k+1st rejects and ends the collection
CollectFilePaths ==
  /\ pc = "mkdir"
  /\ dryPaths.state = "none"
  /\ \E k \in 0..Len(DryCopies(modules)) :
       dryPaths' = [state |-> IF k = Len(DryCopies(modules)) THEN "returned" ELSE "thrown",
                    copies |-> SubSeq(DryCopies(modules), 1, k)]
  /\ UNCHANGED <<modules, force, pc, currentStep, totalSteps, projectDir, done, log,
                 thrown, cleanup, rejection, renderVars, copyVars, cliVars, mainVars, argVars, wrapVars>>

NextGen ==
  \/ CreateProjectDirectory
  \/ CopyTemplateStep
  \/ AddUiDependencyStep
  \/ ChmodHookStep
  \/ RunCommandStep
  \/ CatchCleanup
  \/ CollectFilePaths

SpecGen == InitGen /\ [][NextGen]_vars

(***************************************************************************)
(* Properties of generate                                                  *)
(***************************************************************************)

\* the destination root was created by this run: step 1 completed
RootCreated == done # <<>>

CopiesOf(ops) == {ops[i] : i \in {j \in 1..Len(ops) : ops[j].op = "copyTemplate"}}

C10_DryRunPlansWhatGenerateCopies ==
  (pc = "resolved" /\ dryPaths.state = "returned")
    => CopiesOf(dryPaths.copies) = CopiesOf(done)

\* the errors the steps of generate raise
StepErrors ==
  {"DirectoryExistsError", "remove directory", "create directory", "copyTemplate",
   "addUiDependency", "chmod", "spawn error", "GitNotInstalledError",
   "BunNotInstalledError", "DependencyInstallError"}
    \cup {GitOperationError[c] : c \in DOMAIN GitOperationError}

\* C14: once generate has rejected, the error its caller receives is the one
\* the failing step raised, also when the removal in the catch block failed.
C14_CallerReceivesTheStepError ==
  pc = "rejected" => (rejection = thrown /\ rejection \in StepErrors)

\* git add exited non-zero, the removal of the root failed as well, and the
\* caller received the command's error
C14_Witness ==
  /\ pc = "rejected"
  /\ cleanup = "removal failed"
  /\ projectDir = "created"
  /\ done[Len(done)].target = "bun install"
  /\ rejection = "GitOperationError: add"

\* the destinations of the api module's own template roots
ApiDestinations == {"apps/api", "packages/api-client"}

\* C15: when the api module is not selected, no template copy of generate is
\* given a variant tag, none writes to apps/api or packages/api-client, and
\* the web and mobile copies exclude every directory named api, so no path
\* below such a directory is written.
C15_NoApiOutputWithoutApiModule ==
  ~modules.api
    => \A c \in CopiesOf(done) :
         /\ c.variant = ""
         /\ c.dest \notin ApiDestinations
         /\ c.dest \in {"apps/web", "apps/mobile"} => "api" \in c.exclude

\* a completed run for web and mobile without api
C15_Witness ==
  /\ pc = "resolved"
  /\ ~modules.api /\ modules.web /\ modules.mobile
  /\ \E c \in CopiesOf(done) : c.dest = "apps/web"
  /\ \E c \in CopiesOf(done) : c.dest = "apps/mobile"

\* generate has left its try block through an exception
Failed == pc \in {"catch", "rejected"}

\* the numbered step during which the run stopped
LastStep == log[Len(log)].step

\* C18 (as claimed): a failing git init does not end the run (generate goes
\* on to the remaining steps and the destination stays), while a failing
\* bun install does.
C18_GitInitFailureNotFatal ==
  /\ Failed => LastStep # "gitInit"
  /\ thrown \in {"DependencyInstallError", "BunNotInstalledError"} => Failed

\* the order of the copy destinations and of the commands as claimed
ClaimedCopyOrder ==
  <<".", "packages/config", "apps/web", "apps/mobile", "apps/api",
    "packages/api-client", "apps/storybook", "packages/ui", ".husky",
    ".github/workflows">>

ClaimedCommandOrder ==
  <<"git init", "bun install", "git add .", "git commit --no-verify -m Initial commit">>

PlaceIn(order, x) == CHOOSE i \in 1..Len(order) : order[i] = x

C21_StepNumbersConsecutiveUpToTotal ==
  /\ currentStep <= totalSteps
  /\ currentStep = Len(log)
  /\ \A i \in 1..Len(log) : log[i].n = i /\ log[i].total = totalSteps
  /\ pc = "resolved" => Len(log) = totalSteps

\* a completed run with every module selected: steps 1 to 14 of 14
C21_Witness ==
  /\ pc = "resolved"
  /\ \A k \in DOMAIN modules : modules[k]
  /\ totalSteps = 14
  /\ currentStep = 14
  /\ log[14].step = "gitAdd"

\* C24 (as claimed): when projectPath exists and force is not set, generate
\* rejects with DirectoryExistsError and the directory that was there before
\* the run is still there.
C24_ExistingDirectoryKeptWithoutForce ==
  (~force /\ pc = "rejected" /\ rejection = "DirectoryExistsError")
    => projectDir \in {"empty", "nonempty"}

\* isEmptyDir(path): readdir lists nothing, or fails because nothing is there
isEmptyDir(dir) == dir # "nonempty"

\* validateConfig, part 2: the projectPath errors for a given projectPath
validateProjectPath(parentExists, dir, f) ==
  (IF ~parentExists THEN {"Parent directory does not exist"} ELSE {})
  \cup (IF dir # "absent" /\ ~isEmptyDir(dir) /\ ~f
        THEN {"Directory already exists and is not empty"} ELSE {})

\* C26 (as claimed): whenever validateConfig reports no projectPath error for
\* the destination and the force flag, step 1 of generate does not throw
\* DirectoryExistsError.
C26_ValidationAndGenerateAgree ==
  [][(/\ pc = "mkdir" /\ pc' # "mkdir"
      /\ \E parentExists \in BOOLEAN :
           /\ projectDir # "absent" => parentExists
           /\ validateProjectPath(parentExists, projectDir, force) = {})
       => thrown' # "DirectoryExistsError"]_vars

(***************************************************************************)
(* handleError                                                             *)
(***************************************************************************)

\* the subclasses of TurbokitError that keep the default exitCode 1; those
\* of the second set build their message from a path, from stderr or from a
\* caller's text
FixedMessageErrors ==
  {"NoModulesSelectedError", "GitNotInstalledError", "BunNotInstalledError",
   "DependencyInstallError"}

FreeMessageErrors ==
  {"DirectoryExistsError", "ParentDirectoryNotFoundError", "PermissionDeniedError",
   "TemplateNotFoundError", "FileSystemError", "InvalidProjectNameError",
   "ValidationFailedError", "GitOperationError"}

\* exit codes a failed command hands to CommandFailedError
CommandExitCodes == {1, 2, 127}

TurbokitErrorValue(class, forceClosed, exitCode) ==
  [class |-> class, isError |-> TRUE, isTurbokitError |-> TRUE, name |-> class,
   forceClosed |-> forceClosed, exitCode |-> exitCode]

\* an Error that is no TurbokitError; it has no exitCode property
ErrorValue(name, forceClosed) ==
  [class |-> "Error", isError |-> TRUE, isTurbokitError |-> FALSE, name |-> name,
   forceClosed |-> forceClosed, exitCode |-> 1]

\* the values main's catch clause can hand to handleError; forceClosed is
\* whether message includes 'User force closed'
ErrorValues ==
  {TurbokitErrorValue("OperationCancelledError", fc, 0) : fc \in BOOLEAN}
    \cup {TurbokitErrorValue(c, FALSE, 1) : c \in FixedMessageErrors}
    \cup {TurbokitErrorValue(c, fc, 1) : c \in FreeMessageErrors, fc \in BOOLEAN}
    \cup {TurbokitErrorValue("CommandFailedError", FALSE, n) : n \in CommandExitCodes}
    \cup {ErrorValue(n, fc) : n \in {"Error", "TypeError", "ExitPromptError"},
                              fc \in BOOLEAN}
    \cup {[NoError EXCEPT !.class = "string"]}

\* the status the operating system sees after process.exit(code)
ExitStatus(code) == code % 256

Exited(code, stream, text, stack) ==
  [called |-> TRUE, code |-> code, stream |-> stream, text |-> text, stack |-> stack]

\* handleError(error, verbose), src/index.ts lines 63-101
handleError(e, v) ==
  IF e.class = "OperationCancelledError"
  THEN Exited(e.exitCode, "stdout", "message", FALSE)
  ELSE IF e.isError /\ (e.name = "ExitPromptError" \/ e.forceClosed)
  THEN Exited(0, "stdout", "Operation cancelled.", FALSE)
  ELSE IF e.isTurbokitError
  THEN Exited(e.exitCode, "stderr", "format(verbose)", v)
  ELSE IF e.isError
  THEN Exited(1, "stderr", "Error: message", v)
  ELSE Exited(1, "stderr", "An unexpected error occurred", FALSE)

InitCli ==
  /\ caught \in ErrorValues
  /\ verbose \in BOOLEAN
  /\ exit = NotExited
  /\ content = <<>>
  /\ variables = NoVariables
  /\ applyResult = NotCalled
  /\ NoCopy
  /\ NoGenerate
  /\ NoMain
  /\ NoParse
  /\ NoWrap

HandleErrorCall ==
  /\ ~exit.called
  /\ exit' = handleError(caught, verbose)
  /\ UNCHANGED <<caught, verbose, renderVars, copyVars, genVars, mainVars, argVars, wrapVars>>

NextCli == HandleErrorCall

SpecCli == InitCli /\ [][NextCli]_vars

(***************************************************************************)
(* Properties of handleError                                               *)
(***************************************************************************)

\* the user cancelled: OperationCancelledError, or the prompt library's
\* ExitPromptError / 'User force closed' error (no TurbokitError)
IsCancellation(e) ==
  \/ e.class = "OperationCancelledError"
  \/ e.class = "Error" /\ (e.name = "ExitPromptError" \/ e.forceClosed)

\* C19 (as claimed): the exit status is 0 exactly when the error is a user
\* cancellation, and a cancellation is printed as a plain line on stdout,
\* not as a formatted failure.
C19_ExitZeroIffCancellation ==
  exit.called
    => /\ ExitStatus(exit.code) = 0 <=> IsCancellation(caught)
       /\ IsCancellation(caught)
            => exit.stream = "stdout" /\ exit.text \in {"message", "Operation cancelled."}

(***************************************************************************)
(* main, step 5: generate or dry run                                       *)
(***************************************************************************)

\* the state after step 4 of main: the configuration is validated
InitMain ==
  /\ modules \in AllModules
  /\ flagsDryRun \in BOOLEAN
  /\ verbose \in BOOLEAN
  /\ mainPromise = "pending"
  /\ printPromise = "none"
  /\ caught = NoError
  /\ exit = NotExited
  /\ force = FALSE
  /\ pc = "idle"
  /\ currentStep = 0
  /\ totalSteps = 0
  /\ projectDir = "absent"
  /\ done = <<>>
  /\ log = <<>>
  /\ thrown = ""
  /\ cleanup = "none"
  /\ rejection = ""
  /\ dryPaths = [state |-> "none", copies |-> <<>>]
  /\ content = <<>>
  /\ variables = NoVariables
  /\ applyResult = NotCalled
  /\ NoCopy
  /\ NoParse
  /\ NoWrap

\* src/index.ts lines 47-57.  With flags.dryRun, printDryRun(config) is called and
\* its promise dropped: the call returns at printDryRun's first await and main
\* leaves the try block.  Otherwise main awaits generate: it resolves, or it
\* rejects and the catch clause hands the error to handleError.
MainStep5 ==
  /\ mainPromise = "pending"
  /\ ~exit.called
  /\ IF flagsDryRun
     THEN /\ printPromise' = "pending"
          /\ mainPromise' = "fulfilled"
          /\ UNCHANGED <<caught, exit>>
     ELSE \/ /\ mainPromise' = "fulfilled"
             /\ UNCHANGED <<caught, exit, printPromise>>
          \/ /\ \E e \in ErrorValues :
                  /\ caught' = e
                  /\ exit' = handleError(e, verbose)
             /\ UNCHANGED <<mainPromise, printPromise>>
  /\ UNCHANGED <<flagsDryRun, verbose, renderVars, copyVars, genVars, argVars, wrapVars>>

\* printDryRun, src/cli/dryRun.ts lines 198-214, resumes after its await of
\* collectFilePaths: every dry-mode copyTemplate resolved and the tree is
\* printed, or the k+1st rejected and printDryRun's promise rejects
PrintDryRunSettles ==
  /\ printPromise = "pending"
  /\ \E k \in 0..Len(DryCopies(modules)) :
       /\ dryPaths' = [state |-> IF k = Len(DryCopies(modules)) THEN "returned"
                                 ELSE "thrown",
                       copies |-> SubSeq(DryCopies(modules), 1, k)]
       /\ printPromise' = IF k = Len(DryCopies(modules)) THEN "fulfilled"
                          ELSE "rejected"
  /\ UNCHANGED <<modules, force, pc, currentStep, totalSteps, projectDir, done, log,
                 thrown, cleanup, rejection, flagsDryRun, mainPromise, renderVars,
                 copyVars, cliVars, argVars, wrapVars>>

NextMain ==
  \/ MainStep5
  \/ PrintDryRunSettles

SpecMain == InitMain /\ [][NextMain]_vars

\* C27 (as claimed): in dry-run mode main's promise settles only after
\* printDryRun's promise has settled, and a rejection of printDryRun is
\* passed to handleError.
C27_MainWaitsForPrintDryRun ==
  /\ (flagsDryRun /\ mainPromise = "fulfilled") => printPromise \in {"fulfilled", "rejected"}
  /\ printPromise = "rejected" => exit.called

(***************************************************************************)
(* parseArgs                                                               *)
(***************************************************************************)

MaxArgs == 3

\* a token is the sequence of its pieces; a leading "-" piece is a dash
Flag(word) == <<"-", "-", word>>

Alias(letter) == <<"-", letter>>

\* the tokens of the argument lists checked: flags that take a value, set a
\* switch or exit, unrecognised flags and positional arguments
Tokens ==
  {Flag("name"), Flag("web"), Alias("v"), Flag("help"), Flag("version"),
   Flag("unknown"), Alias("x"), <<"my-app">>}

ArgLists == UNION {[1..n -> Tokens] : n \in 0..MaxArgs}

\* arg.startsWith('-')
StartsWithDash(arg) == Len(arg) > 0 /\ arg[1] = "-"

\* argv[i] of JavaScript: undefined beyond the end
ArgAt(args, i) ==
  IF i \in 1..Len(args) THEN [defined |-> TRUE, val |-> args[i]] ELSE Undefined

ParsedFlags(flags) == [kind |-> "returned", flags |-> flags, code |-> 0, stream |-> ""]

ProcessExit(flags, code, stream) ==
  [kind |-> "exited", flags |-> flags, code |-> code, stream |-> stream]

\* a default case that ignores every unmatched token
defaultCaseIgnoresAll(arg) == "ignore"

\* the default case of the switch, lines 127-134
defaultCase(arg) == IF StartsWithDash(arg) THEN "exit" ELSE "ignore"

\* the while loop of parseArgs, lines 65-138, from index i on
RECURSIVE parseLoop(_, _, _)
parseLoop(args, i, flags) ==
  IF i > Len(args) THEN ParsedFlags(flags)
  ELSE LET arg == args[i]
       IN IF arg = Flag("name")
          THEN parseLoop(args, i + 2, [flags EXCEPT !.name = ArgAt(args, i + 1)])
          ELSE IF arg = Flag("path")
          THEN parseLoop(args, i + 2, [flags EXCEPT !.path = ArgAt(args, i + 1)])
          ELSE IF arg = Flag("web")
          THEN parseLoop(args, i + 1, [flags EXCEPT !.web = TRUE])
          ELSE IF arg = Flag("mobile")
          THEN parseLoop(args, i + 1, [flags EXCEPT !.mobile = TRUE])
          ELSE IF arg = Flag("api")
          THEN parseLoop(args, i + 1, [flags EXCEPT !.api = TRUE])
          ELSE IF arg = Flag("storybook")
          THEN parseLoop(args, i + 1, [flags EXCEPT !.storybook = TRUE])
          ELSE IF arg = Flag("ui")
          THEN parseLoop(args, i + 1, [flags EXCEPT !.ui = TRUE])
          ELSE IF arg \in {Flag("yes"), Alias("y")}
          THEN parseLoop(args, i + 1, [flags EXCEPT !.yes = TRUE])
          ELSE IF arg = Flag("dry-run")
          THEN parseLoop(args, i + 1, [flags EXCEPT !.dryRun = TRUE])
          ELSE IF arg \in {Flag("verbose"), Alias("v")}
          THEN parseLoop(args, i + 1, [flags EXCEPT !.verbose = TRUE])
          ELSE IF arg \in {Flag("force"), Alias("f")}
          THEN parseLoop(args, i + 1, [flags EXCEPT !.force = TRUE])
          ELSE IF arg \in {Flag("help"), Alias("h")}
          THEN ProcessExit(flags, 0, "stdout")
          ELSE IF arg = Flag("version")
          THEN ProcessExit(flags, 0, "stdout")
          ELSE IF defaultCase(arg) = "exit"
          THEN ProcessExit(flags, 1, "stderr")
          ELSE parseLoop(args, i + 1, flags)

parseArgs(args) == parseLoop(args, 1, DefaultFlags)

InitArgs ==
  /\ argv \in ArgLists
  /\ parsed = NotParsed
  /\ content = <<>>
  /\ variables = NoVariables
  /\ applyResult = NotCalled
  /\ NoCopy
  /\ NoGenerate
  /\ NoCli
  /\ NoMain
  /\ NoWrap

ParseArgsCall ==
  /\ parsed.kind = "none"
  /\ parsed' = parseArgs(argv)
  /\ UNCHANGED <<argv, renderVars, copyVars, genVars, cliVars, mainVars, wrapVars>>

NextArgs == ParseArgsCall

SpecArgs == InitArgs /\ [][NextArgs]_vars

(***************************************************************************)
(* Properties of parseArgs                                                 *)
(***************************************************************************)

RecognisedFlags ==
  {Flag(w) : w \in {"name", "path", "web", "mobile", "api", "storybook", "ui", "yes",
                    "dry-run", "verbose", "force", "help", "version"}}
    \cup {Alias(l) : l \in {"y", "v", "f", "h"}}

Unrecognised(arg) == StartsWithDash(arg) /\ arg \notin RecognisedFlags

\* C28 (as claimed): if some token of argv begins with '-' and is no
\* recognised flag or alias, parseArgs prints an error and exits with code 1
\* instead of returning flags.
C28_UnknownFlagExitsOne ==
  (parsed.kind # "none" /\ \E i \in 1..Len(argv) : Unrecognised(argv[i]))
    => (parsed.kind = "exited" /\ parsed.code = 1 /\ parsed.stream = "stderr")

\* the token at i is not the value of a --name or --path before it
RECURSIVE InFlagPosition(_, _)
InFlagPosition(args, i) ==
  IF i = 1 THEN TRUE
  ELSE ~(InFlagPosition(args, i - 1) /\ args[i - 1] \in {Flag("name"), Flag("path")})

ExitsZero(arg) == arg \in {Flag("help"), Alias("h"), Flag("version")}

\* C28 (amended): if a token that is not the value of a preceding --name or
\* --path begins with '-' and is no recognised flag or alias, and no --help,
\* -h or --version stands in flag position before it, parseArgs prints an
\* error and exits with code 1 instead of returning flags.
C28_UnknownFlagInFlagPositionExitsOne ==
  (parsed.kind # "none"
     /\ \E i \in 1..Len(argv) :
          /\ Unrecognised(argv[i])
          /\ InFlagPosition(argv, i)
          /\ \A j \in 1..(i - 1) : ~(InFlagPosition(argv, j) /\ ExitsZero(argv[j])))
    => (parsed.kind = "exited" /\ parsed.code = 1 /\ parsed.stream = "stderr")

C28_Witness ==
  /\ argv = <<Flag("name"), Alias("x"), Flag("unknown")>>
  /\ parsed.kind = "exited"
  /\ parsed.code = 1
  /\ parsed.flags.name = [defined |-> TRUE, val |-> Alias("x")]

(***************************************************************************)
(* wrapFileSystemError                                                     *)
(***************************************************************************)

\* an instance of a TurbokitError subclass; suggestion "" stands for undefined
TurbokitFsError(class, message, suggestion) ==
  [kind |-> "TurbokitError", class |-> class, code |-> "", message |-> message,
   suggestion |-> suggestion]

\* new FileSystemError(message, suggestion?)
FileSystemError(message, suggestion) ==
  TurbokitFsError("FileSystemError", message, suggestion)

\* new PermissionDeniedError(path, operation), lines 80-88
PermissionDeniedError(p, operation) ==
  TurbokitFsError("PermissionDeniedError",
                  <<"Permission denied: cannot ", operation, " ", p>>,
                  "Check file permissions or try running with appropriate privileges")

\* new DirectoryExistsError(path), lines 55-62
DirectoryExistsError(p) ==
  TurbokitFsError("DirectoryExistsError", <<"Directory already exists: ", p>>,
                  "Use --force to overwrite the existing directory, or choose a different path")

\* an Error that is no TurbokitError, with its code property ("" if it has none)
ErrnoException(code) ==
  [kind |-> "Error", class |-> "Error", code |-> code, message |-> <<code>>,
   suggestion |-> ""]

\* a thrown value that is no Error
ThrownString ==
  [kind |-> "other", class |-> "string", code |-> "", message |-> <<"unknown">>,
   suggestion |-> ""]

\* a wrapFileSystemError that wraps whatever it is given without looking at it
wrapFileSystemErrorUnclassified(e, p, operation) ==
  FileSystemError(<<"Failed to ", operation, " ", p, ": ">> \o e.message, "")

\* wrapFileSystemError(error, path, operation), lines 288-330
wrapFileSystemError(e, p, operation) ==
  IF e.kind = "TurbokitError" THEN e
  ELSE IF e.kind = "Error"
  THEN IF e.code = "ENOENT"
       THEN FileSystemError(<<"File or directory not found: ", p>>,
                            "Check that the path exists and is spelled correctly")
       ELSE IF e.code \in {"EACCES", "EPERM"} THEN PermissionDeniedError(p, operation)
       ELSE IF e.code = "EEXIST" THEN DirectoryExistsError(p)
       ELSE IF e.code = "ENOSPC"
       THEN FileSystemError(<<"No space left on device while ", operation, ": ", p>>,
                            "Free up disk space and try again")
       ELSE IF e.code \in {"EMFILE", "ENFILE"}
       THEN FileSystemError(<<"Too many open files while ", operation, ": ", p>>,
                            "Close some applications or increase system file limits")
       ELSE FileSystemError(<<"Failed to ", operation, " ", p, ": ">> \o e.message, "")
  ELSE FileSystemError(<<"Unknown error during ", operation, ": ", p>>, "")

\* the system error codes the switch names, and two it does not
ClassifiedCodes == {"ENOENT", "EACCES", "EPERM", "EEXIST", "ENOSPC", "EMFILE", "ENFILE"}

ErrnoCodes == ClassifiedCodes \cup {"EIO", ""}

\* the values handed to wrapFileSystemError: TurbokitErrors with and without a
\* suggestion, Errors with and without a code, and a value that is no Error
FsErrorInputs ==
  {DirectoryExistsError("/other"),
   FileSystemError(<<"disk failure">>, ""),
   TurbokitFsError("OperationCancelledError", <<"Operation cancelled">>, "")}
    \cup {ErrnoException(c) : c \in ErrnoCodes}
    \cup {ThrownString}

FsPaths == {"/project", ""}

FsOperations == {"read", "write", "create directory", "remove directory"}

InitWrap ==
  /\ wrapCall \in [error : FsErrorInputs, path : FsPaths, operation : FsOperations]
  /\ wrapped = [once |-> NoFsError, twice |-> NoFsError]
  /\ content = <<>>
  /\ variables = NoVariables
  /\ applyResult = NotCalled
  /\ NoCopy
  /\ NoGenerate
  /\ NoCli
  /\ NoMain
  /\ NoParse

WrapFileSystemErrorCall ==
  /\ wrapped.once.kind = "none"
  /\ wrapped' = [wrapped EXCEPT !.once =
                   wrapFileSystemError(wrapCall.error, wrapCall.path, wrapCall.operation)]
  /\ UNCHANGED <<wrapCall, renderVars, copyVars, genVars, cliVars, mainVars, argVars>>

\* the result is wrapped once more, as by an enclosing catch clause
WrapAgainCall ==
  /\ wrapped.once.kind # "none"
  /\ wrapped.twice.kind = "none"
  /\ \E p \in FsPaths, operation \in FsOperations :
       wrapped' = [wrapped EXCEPT !.twice = wrapFileSystemError(wrapped.once, p, operation)]
  /\ UNCHANGED <<wrapCall, renderVars, copyVars, genVars, cliVars, mainVars, argVars>>

NextWrap ==
  \/ WrapFileSystemErrorCall
  \/ WrapAgainCall

SpecWrap == InitWrap /\ [][NextWrap]_vars

(***************************************************************************)
(* Properties of wrapFileSystemError                                       *)
(***************************************************************************)

\* C30: the result is a TurbokitError for every input; a TurbokitError comes
\* back unchanged and wrapping the result again changes nothing; EACCES and
\* EPERM give PermissionDeniedError, EEXIST gives DirectoryExistsError,
\* ENOENT, ENOSPC, EMFILE and ENFILE give FileSystemError, and each of these
\* classified results has a suggestion.
C30_WrapFileSystemErrorClassifies ==
  wrapped.once.kind # "none"
    => LET e == wrapCall.error
           r == wrapped.once
       IN /\ r.kind = "TurbokitError"
          /\ e.kind = "TurbokitError" => r = e
          /\ wrapped.twice.kind # "none" => wrapped.twice = r
          /\ e.kind = "Error"
               => /\ e.code \in {"EACCES", "EPERM"} => r.class = "PermissionDeniedError"
                  /\ e.code = "EEXIST" => r.class = "DirectoryExistsError"
                  /\ e.code \in {"ENOENT", "ENOSPC", "EMFILE", "ENFILE"}
                       => r.class = "FileSystemError"
                  /\ e.code \in ClassifiedCodes => r.suggestion # ""

C30_Witness ==
  /\ wrapCall.error = ErrnoException("ENOSPC")
  /\ wrapped.once.class = "FileSystemError"
  /\ wrapped.once.suggestion = "Free up disk space and try again"
  /\ wrapped.twice = wrapped.once

====
